---- MODULE Spec2Model ----
(***************************************************************************)
(* Weather proxy: get_weather(city_name) resolves a city through a         *)
(* cache-aside lookup in front of the geocoding provider, then resolves    *)
(* the current weather through a cache-aside lookup in front of the        *)
(* weather provider.  Both providers are called through                    *)
(* _request_with_retry.  The cache is a Redis key/value store.             *)
(*                                                                         *)
(* Python values are modelled as follows.                                  *)
(*   str        a sequence of atoms (one-character or one-token strings)   *)
(*   JSON value a record with one field, named after its JSON type         *)
(*   a call     Val(v) when it returns v, Exc(e, msg, arg) when it raises  *)
(***************************************************************************)
EXTENDS Integers, Sequences, FiniteSets, TLC

(***************************************************************************)
(* Bounds of the model.                                                    *)
(***************************************************************************)
MaxLookups == 2
\* longest name and longest second name given to normalize_city_name on its own
MaxNameLen == 4
MaxOtherLen == 3

(***************************************************************************)
(* Program constants (weather.py).                                         *)
(***************************************************************************)
RETRY_ATTEMPTS == 3
\* delays are in milliseconds: 0.3 s and 2.0 s
RETRY_BASE_DELAY_S == 300
RETRY_MAX_DELAY_S == 2000
RETRYABLE_STATUS_CODES == {429, 500, 502, 503, 504}

(***************************************************************************)
(* Results of calls: a returned value or a raised exception.               *)
(***************************************************************************)
Val(v) == [ok |-> TRUE, v |-> v]
Exc(e, msg, arg) == [ok |-> FALSE, exc |-> e, msg |-> msg, arg |-> arg]
None == [ok |-> TRUE, none |-> TRUE]

CityNotFoundError(city_name) == Exc("CityNotFoundError", "City not found: ", city_name)
ExternalAPIError(error_message) == Exc("ExternalAPIError", error_message, <<>>)
PyError(e) == Exc(e, "", <<>>)

(***************************************************************************)
(* JSON values.                                                            *)
(***************************************************************************)
JNull == [null |-> 0]
JNum(n) == [num |-> n]
JStr(s) == [str |-> s]
JArr(a) == [arr |-> a]
JObj(o) == [obj |-> o]
JBool(b) == [bool |-> b]
\* a response body that is not JSON at all
NotJson == [invalid |-> 0]

\* the JSON type of x and the Python value it holds
T(x) ==
    CASE "num" \in DOMAIN x -> "num"
      [] "str" \in DOMAIN x -> "str"
      [] "obj" \in DOMAIN x -> "obj"
      [] "arr" \in DOMAIN x -> "arr"
      [] "bool" \in DOMAIN x -> "bool"
      [] "null" \in DOMAIN x -> "null"
      [] OTHER -> "invalid"
V(x) == x[T(x)]

\* x[k] for a str key k
Subscript(x, k) ==
    CASE T(x) = "obj" -> IF k \in DOMAIN V(x) THEN Val(V(x)[k]) ELSE PyError("KeyError")
      [] OTHER -> PyError("TypeError")

\* x[0]
First(x) ==
    CASE T(x) = "arr" -> IF Len(V(x)) > 0 THEN Val(V(x)[1]) ELSE PyError("IndexError")
      [] T(x) = "str" -> IF Len(V(x)) > 0 THEN Val(JStr(<<V(x)[1]>>)) ELSE PyError("IndexError")
      [] T(x) = "obj" -> PyError("KeyError")
      [] OTHER -> PyError("TypeError")

\* bool(x)
Truthy(x) ==
    CASE T(x) = "null" -> FALSE
      [] T(x) = "bool" -> V(x)
      [] T(x) = "num" -> V(x) # 0
      [] T(x) = "str" -> Len(V(x)) > 0
      [] T(x) = "arr" -> Len(V(x)) > 0
      [] T(x) = "obj" -> DOMAIN V(x) # {}
      [] OTHER -> FALSE

(***************************************************************************)
(* normalize_city_name (cache.py): lower, strip, replace " " by "_".       *)
(***************************************************************************)
ascii_uppercase ==
    <<"A", "B", "C", "D", "E", "F", "G", "H", "I", "J", "K", "L", "M",
      "N", "O", "P", "Q", "R", "S", "T", "U", "V", "W", "X", "Y", "Z">>
ascii_lowercase ==
    <<"a", "b", "c", "d", "e", "f", "g", "h", "i", "j", "k", "l", "m",
      "n", "o", "p", "q", "r", "s", "t", "u", "v", "w", "x", "y", "z">>

LowerChar(c) ==
    IF \E i \in 1..26 : ascii_uppercase[i] = c
    THEN ascii_lowercase[CHOOSE i \in 1..26 : ascii_uppercase[i] = c]
    ELSE c

lower(s) == [i \in 1..Len(s) |-> LowerChar(s[i])]

RECURSIVE lstrip(_)
lstrip(s) == IF Len(s) > 0 /\ Head(s) = " " THEN lstrip(Tail(s)) ELSE s

RECURSIVE rstrip(_)
rstrip(s) ==
    IF Len(s) > 0 /\ s[Len(s)] = " " THEN rstrip(SubSeq(s, 1, Len(s) - 1)) ELSE s

strip(s) == rstrip(lstrip(s))

replace(s, old, new) == [i \in 1..Len(s) |-> IF s[i] = old THEN new ELSE s[i]]

\* a normalization that drops the spaces instead of replacing them
normalize_city_name_squash(city_name) ==
    SelectSeq(strip(lower(city_name)), LAMBDA c : c # " ")

\* a normalization that replaces the spaces before it strips
normalize_city_name_replace_first(city_name) ==
    strip(replace(lower(city_name), " ", "_"))

normalize_city_name(city_name) == replace(strip(lower(city_name)), " ", "_")

(***************************************************************************)
(* City model (models/city.py), validated by pydantic.                     *)
(***************************************************************************)
\* City(name=..., country_code=..., latitude=..., longitude=...) on JSON values
City(name, country_code, latitude, longitude) ==
    IF /\ T(name) = "str"
       /\ T(country_code) = "str"
       /\ T(latitude) = "num"
       /\ T(longitude) = "num"
    THEN Val([name |-> V(name), country_code |-> V(country_code),
              latitude |-> V(latitude), longitude |-> V(longitude)])
    ELSE PyError("ValidationError")

\* city.model_dump_json()
city_model_dump_json(city) ==
    JObj([name |-> JStr(city.name), country_code |-> JStr(city.country_code),
          latitude |-> JNum(city.latitude), longitude |-> JNum(city.longitude)])

\* City(**json.loads(blob))
city_from_json(blob) ==
    IF T(blob) = "obj" /\ {"name", "country_code", "latitude", "longitude"} \subseteq DOMAIN V(blob)
    THEN City(V(blob)["name"], V(blob)["country_code"], V(blob)["latitude"], V(blob)["longitude"])
    ELSE PyError("ValidationError")

(***************************************************************************)
(* Weather model (models/weather.py).                                      *)
(***************************************************************************)
\* the dict, as the sequence of its (code, description) items
WEATHER_CODE_MAP ==
    <<
       <<0, <<"Clear sky">>>>,
       <<1, <<"Mainly clear">>>>,
       <<2, <<"Partly cloudy">>>>,
       <<3, <<"Overcast">>>>,
       <<45, <<"Fog">>>>,
       <<48, <<"Depositing rime fog">>>>,
       <<51, <<"Light drizzle">>>>,
       <<53, <<"Moderate drizzle">>>>,
       <<55, <<"Dense drizzle">>>>,
       <<56, <<"Light freezing drizzle">>>>,
       <<57, <<"Dense freezing drizzle">>>>,
       <<61, <<"Slight rain">>>>,
       <<63, <<"Moderate rain">>>>,
       <<65, <<"Heavy rain">>>>,
       <<66, <<"Light freezing rain">>>>,
       <<67, <<"Heavy freezing rain">>>>,
       <<71, <<"Slight snowfall">>>>,
       <<73, <<"Moderate snowfall">>>>,
       <<75, <<"Heavy snowfall">>>>,
       <<77, <<"Snow grains">>>>,
       <<80, <<"Slight rain showers">>>>,
       <<81, <<"Moderate rain showers">>>>,
       <<82, <<"Violent rain showers">>>>,
       <<85, <<"Slight snow showers">>>>,
       <<86, <<"Heavy snow showers">>>>,
       <<95, <<"Thunderstorm (no hail)">>>>,
       <<96, <<"Thunderstorm with slight hail">>>>,
       <<99, <<"Thunderstorm with heavy hail">>>>
    >>

\* a lookup that raises KeyError for a code outside the table
weather_code_description_strict(code) ==
    CASE T(code) \in {"arr", "obj"} -> PyError("TypeError")
      [] T(code) = "num" /\ \E i \in 1..Len(WEATHER_CODE_MAP) : WEATHER_CODE_MAP[i][1] = V(code) ->
           Val(WEATHER_CODE_MAP[CHOOSE i \in 1..Len(WEATHER_CODE_MAP) :
                                    WEATHER_CODE_MAP[i][1] = V(code)][2])
      [] OTHER -> PyError("KeyError")

\* the codes that are keys of the dict
weather_codes == {WEATHER_CODE_MAP[i][1] : i \in 1..Len(WEATHER_CODE_MAP)}

\* WEATHER_CODE_MAP.get(code, "Unknown"): an unhashable key raises TypeError
weather_code_description(code) ==
    CASE T(code) \in {"arr", "obj"} -> PyError("TypeError")
      [] T(code) = "num" /\ V(code) \in weather_codes ->
           Val(WEATHER_CODE_MAP[CHOOSE i \in 1..Len(WEATHER_CODE_MAP) :
                                    WEATHER_CODE_MAP[i][1] = V(code)][2])
      [] OTHER -> Val(<<"Unknown">>)

IsoDates == {"2024-01-01"}
IsoClocks == {"00:00", "12:30"}

\* datetime.fromisoformat(x): "<date>T<hh:mm>" or "<date>T<hh:mm>:<ss>"
fromisoformat(x) ==
    CASE T(x) # "str" -> PyError("TypeError")
      [] T(x) = "str" /\ Len(V(x)) = 3 /\ V(x)[1] \in IsoDates /\ V(x)[2] = "T" /\ V(x)[3] \in IsoClocks
           -> Val([date |-> V(x)[1], clock |-> V(x)[3], second |-> ":00"])
      [] T(x) = "str" /\ Len(V(x)) = 4 /\ V(x)[1] \in IsoDates /\ V(x)[2] = "T" /\ V(x)[3] \in IsoClocks
           /\ V(x)[4] = ":00"
           -> Val([date |-> V(x)[1], clock |-> V(x)[3], second |-> V(x)[4]])
      [] OTHER -> PyError("ValueError")

\* the JSON form of a datetime: "<date>T<hh:mm>:<ss>"
isoformat(d) == <<d.date, "T", d.clock, d.second>>

\* Weather(city=..., time=..., ...): city a str, time a datetime, is_day a bool,
\* description a str; the numeric fields are validated by pydantic
Weather(city, time, temperature_c, windspeed_kmh, winddirection_deg, is_day, weather_code, weather_description) ==
    IF /\ T(temperature_c) = "num"
       /\ T(windspeed_kmh) = "num"
       /\ T(winddirection_deg) = "num"
       /\ T(weather_code) = "num"
    THEN Val([city |-> city, time |-> time, temperature_c |-> V(temperature_c),
              windspeed_kmh |-> V(windspeed_kmh),
              winddirection_deg |-> V(winddirection_deg), is_day |-> is_day,
              weather_code |-> V(weather_code),
              weather_description |-> weather_description])
    ELSE PyError("ValidationError")

\* Weather.from_api_response(city, api_data), in the order Python evaluates it
from_api_response(city, api_data) ==
    LET current == Subscript(api_data, "current_weather") IN
    IF ~current.ok THEN current ELSE
    LET code == Subscript(current.v, "weathercode") IN
    IF ~code.ok THEN code ELSE
    LET timestr == Subscript(current.v, "time") IN
    IF ~timestr.ok THEN timestr ELSE
    LET time == fromisoformat(timestr.v) IN
    IF ~time.ok THEN time ELSE
    LET temperature == Subscript(current.v, "temperature") IN
    IF ~temperature.ok THEN temperature ELSE
    LET windspeed == Subscript(current.v, "windspeed") IN
    IF ~windspeed.ok THEN windspeed ELSE
    LET winddirection == Subscript(current.v, "winddirection") IN
    IF ~winddirection.ok THEN winddirection ELSE
    LET is_day == Subscript(current.v, "is_day") IN
    IF ~is_day.ok THEN is_day ELSE
    LET description == weather_code_description(code.v) IN
    IF ~description.ok THEN description ELSE
    Weather(city, time.v, temperature.v, windspeed.v, winddirection.v,
            Truthy(is_day.v), code.v, description.v)

\* a dump that writes the wind speed where the temperature belongs
weather_model_dump_json_swapped(w) ==
    JObj([city |-> JStr(w.city), time |-> JStr(isoformat(w.time)),
          temperature_c |-> JNum(w.windspeed_kmh),
          windspeed_kmh |-> JNum(w.temperature_c),
          winddirection_deg |-> JNum(w.winddirection_deg),
          is_day |-> JBool(w.is_day), weather_code |-> JNum(w.weather_code),
          weather_description |-> JStr(w.weather_description)])

\* weather.model_dump_json()
weather_model_dump_json(w) ==
    JObj([city |-> JStr(w.city), time |-> JStr(isoformat(w.time)),
          temperature_c |-> JNum(w.temperature_c),
          windspeed_kmh |-> JNum(w.windspeed_kmh),
          winddirection_deg |-> JNum(w.winddirection_deg),
          is_day |-> JBool(w.is_day), weather_code |-> JNum(w.weather_code),
          weather_description |-> JStr(w.weather_description)])

\* Weather(**json.loads(blob))
weather_from_json(blob) ==
    IF /\ T(blob) = "obj"
       /\ {"city", "time", "temperature_c", "windspeed_kmh", "winddirection_deg",
           "is_day", "weather_code", "weather_description"} \subseteq DOMAIN V(blob)
       /\ T(V(blob)["city"]) = "str"
       /\ fromisoformat(V(blob)["time"]).ok
       /\ T(V(blob)["is_day"]) = "bool"
       /\ T(V(blob)["weather_description"]) = "str"
    THEN Weather(V(V(blob)["city"]), fromisoformat(V(blob)["time"]).v,
                 V(blob)["temperature_c"], V(blob)["windspeed_kmh"],
                 V(blob)["winddirection_deg"], V(V(blob)["is_day"]),
                 V(blob)["weather_code"], V(V(blob)["weather_description"]))
    ELSE PyError("ValidationError")

(***************************************************************************)
(* HTTP: what one httpx.get can produce.                                   *)
(***************************************************************************)
Response(status_code, body) == [error |-> FALSE, status_code |-> status_code, body |-> body]
\* httpx.RequestError: timeout, connection error, DNS failure
RequestError == [error |-> TRUE, status_code |-> 0, body |-> JNull]

\* a status check that accepts 200 alone
is_success_200(status_code) == status_code = 200

\* response.raise_for_status() raises unless the status is 2xx
is_success(status_code) == 200 <= status_code /\ status_code <= 299

Min(a, b) == IF a < b THEN a ELSE b

RECURSIVE Pow2(_)
Pow2(n) == IF n <= 0 THEN 1 ELSE 2 * Pow2(n - 1)

\* a delay that does not grow with the attempt
retry_delay_constant(att) == Min(RETRY_BASE_DELAY_S, RETRY_MAX_DELAY_S)

\* delay = min(RETRY_BASE_DELAY_S * (2 ** (attempt - 1)), RETRY_MAX_DELAY_S)
retry_delay(att) == Min(RETRY_BASE_DELAY_S * Pow2(att - 1), RETRY_MAX_DELAY_S)

\* a loop that retries every bad status, whether retryable or not
request_with_retry_attempt_retry_all(att, outcome, error_message) ==
    IF ~outcome.error /\ is_success(outcome.status_code)
    THEN [next |-> "return", delay |-> 0]
    ELSE IF att = RETRY_ATTEMPTS
         THEN [next |-> "raise", delay |-> 0]
         ELSE [next |-> "sleep", delay |-> retry_delay(att)]

\* a loop that gives up one attempt early
request_with_retry_attempt_short(att, outcome, error_message) ==
    IF ~outcome.error /\ is_success(outcome.status_code)
    THEN [next |-> "return", delay |-> 0]
    ELSE IF (~outcome.error /\ outcome.status_code \notin RETRYABLE_STATUS_CODES)
             \/ att >= RETRY_ATTEMPTS - 1
         THEN [next |-> "raise", delay |-> 0]
         ELSE [next |-> "sleep", delay |-> retry_delay(att)]

\* One iteration of the loop of _request_with_retry, for attempt number att:
\* the response is returned, ExternalAPIError is raised, or the loop sleeps.
request_with_retry_attempt(att, outcome, error_message) ==
    IF ~outcome.error
    THEN IF is_success(outcome.status_code)
         THEN [next |-> "return", delay |-> 0]
         ELSE LET retryable == outcome.status_code \in RETRYABLE_STATUS_CODES IN
              IF ~retryable \/ att = RETRY_ATTEMPTS
              THEN [next |-> "raise", delay |-> 0]
              ELSE [next |-> "sleep", delay |-> retry_delay(att)]
    ELSE IF att = RETRY_ATTEMPTS
         THEN [next |-> "raise", delay |-> 0]
         ELSE [next |-> "sleep", delay |-> retry_delay(att)]

(***************************************************************************)
(* Payload handling of get_city_from_api and get_weather_data_from_api.    *)
(***************************************************************************)
\* response.json()
response_json(body) == IF T(body) = "invalid" THEN PyError("JSONDecodeError") ELSE Val(body)

\* the body of the try block of get_city_from_api
city_payload(city_name, body) ==
    LET json == response_json(body) IN
    IF ~json.ok THEN json ELSE
    IF T(json.v) # "obj" THEN PyError("AttributeError") ELSE
    LET got == IF "results" \in DOMAIN V(json.v) THEN V(json.v)["results"] ELSE JNull
        results == IF Truthy(got) THEN got ELSE JArr(<<>>)
    IN
    IF ~Truthy(results) THEN CityNotFoundError(city_name) ELSE
    LET data == First(results) IN
    IF ~data.ok THEN data ELSE
    LET name == Subscript(data.v, "name") IN
    IF ~name.ok THEN name ELSE
    LET country_code == Subscript(data.v, "country_code") IN
    IF ~country_code.ok THEN country_code ELSE
    LET latitude == Subscript(data.v, "latitude") IN
    IF ~latitude.ok THEN latitude ELSE
    LET longitude == Subscript(data.v, "longitude") IN
    IF ~longitude.ok THEN longitude ELSE
    City(name.v, country_code.v, latitude.v, longitude.v)

\* a handler that catches every exception of the try block
get_city_from_api_payload_catch_all(city_name, body) ==
    LET r == city_payload(city_name, body) IN
    IF ~r.ok THEN ExternalAPIError("City lookup failed") ELSE r

\* get_city_from_api after its request returned: except (TypeError, KeyError)
get_city_from_api_payload(city_name, body) ==
    LET r == city_payload(city_name, body) IN
    IF ~r.ok /\ r.exc \in {"TypeError", "KeyError"}
    THEN ExternalAPIError("City lookup failed")
    ELSE r

\* "current_weather" not in data
current_weather_not_in(data) ==
    CASE T(data) = "obj" -> Val("current_weather" \notin DOMAIN V(data))
      [] T(data) = "arr" ->
           Val(~\E i \in 1..Len(V(data)) :
                  T(V(data)[i]) = "str" /\ V(V(data)[i]) = <<"current_weather">>)
      [] T(data) = "str" -> Val(~\E i \in 1..Len(V(data)) : V(data)[i] = "current_weather")
      [] OTHER -> PyError("TypeError")

\* a handler that returns the payload without looking for current_weather
get_weather_data_from_api_payload_unchecked(body) == response_json(body)

\* get_weather_data_from_api after its request returned
get_weather_data_from_api_payload(body) ==
    LET data == response_json(body) IN
    IF ~data.ok THEN data ELSE
    LET missing == current_weather_not_in(data.v) IN
    IF ~missing.ok THEN missing ELSE
    IF missing.v THEN ExternalAPIError("Weather lookup failed") ELSE data

(***************************************************************************)
(* Inputs: query names, and what the two providers may answer.             *)
(***************************************************************************)
Names == {<<"L", "o">>, <<"l", "o">>, <<"N", " ", "Y">>}

Statuses == {200, 301, 404, 429, 503}

LondonEntry ==
    JObj([name |-> JStr(<<"L", "o">>), country_code |-> JStr(<<"G", "B">>),
          latitude |-> JNum(51), longitude |-> JNum(0)])
NewYorkEntry ==
    JObj([name |-> JStr(<<"N", "Y">>), country_code |-> JStr(<<"U", "S">>),
          latitude |-> JNum(40), longitude |-> JNum(-74)])

GeoBodies ==
    { JObj([results |-> JArr(<<LondonEntry>>)]),
      JObj([results |-> JArr(<<NewYorkEntry, LondonEntry>>)]),
      \* no match: results empty, null or absent
      JObj([results |-> JArr(<<>>)]),
      JObj([results |-> JNull]),
      JObj([generationtime_ms |-> JNum(1)]),
      \* first entry without latitude
      JObj([results |-> JArr(<<JObj([name |-> JStr(<<"L", "o">>),
                                     country_code |-> JStr(<<"G", "B">>),
                                     longitude |-> JNum(0)])>>)]),
      \* first entry with a latitude that is no number
      JObj([results |-> JArr(<<JObj([name |-> JStr(<<"L", "o">>),
                                     country_code |-> JStr(<<"G", "B">>),
                                     latitude |-> JStr(<<"n", "o", "r", "t", "h">>),
                                     longitude |-> JNum(0)])>>)]),
      \* first entry that is no object
      JObj([results |-> JArr(<<JStr(<<"L", "o">>)>>)]),
      NotJson }

CurrentWeather(time, temperature, is_day, weathercode) ==
    JObj([time |-> time, temperature |-> temperature, windspeed |-> JNum(5),
          winddirection |-> JNum(180), is_day |-> is_day, weathercode |-> weathercode])

WeatherBodies ==
    { JObj([current_weather |->
              CurrentWeather(JStr(<<"2024-01-01", "T", "00:00">>), JNum(10), JNum(1), JNum(1))]),
      JObj([current_weather |->
              CurrentWeather(JStr(<<"2024-01-01", "T", "12:30">>), JNum(-3), JNum(0), JNum(4))]),
      \* no current_weather key
      JObj([error |-> JBool(TRUE)]),
      JArr(<<>>),
      \* current_weather without temperature
      JObj([current_weather |->
              JObj([time |-> JStr(<<"2024-01-01", "T", "00:00">>), windspeed |-> JNum(5),
                    winddirection |-> JNum(180), is_day |-> JNum(1),
                    weathercode |-> JNum(1)])]),
      \* current_weather with a temperature that is no number
      JObj([current_weather |->
              CurrentWeather(JStr(<<"2024-01-01", "T", "00:00">>), JStr(<<"w", "a", "r", "m">>),
                             JNum(1), JNum(1))]),
      \* current_weather with a time that is no ISO-8601 string
      JObj([current_weather |->
              CurrentWeather(JStr(<<"n", "o", "w">>), JNum(10), JNum(1), JNum(1))]),
      \* current_weather that is no object
      JObj([current_weather |-> JNull]),
      NotJson }

\* providers that are up: a well-formed body, or 503 while they are busy
UpGeoBodies ==
    { JObj([results |-> JArr(<<LondonEntry>>)]),
      JObj([results |-> JArr(<<NewYorkEntry, LondonEntry>>)]) }
UpWeatherBodies ==
    { JObj([current_weather |->
              CurrentWeather(JStr(<<"2024-01-01", "T", "00:00">>), JNum(10), JNum(1), JNum(1))]) }
UpOutcomes(bodies) ==
    {Response(200, b) : b \in bodies} \cup {Response(503, JNull), RequestError}

\* what one GET can produce: a 2xx response with a body, another status, no response
Outcomes(bodies) ==
    {Response(st, JNull) : st \in {x \in Statuses : ~is_success(x)}}
        \cup {Response(st, b) : st \in {x \in Statuses : is_success(x)}, b \in bodies}
        \cup {RequestError}

(***************************************************************************)
(* State.                                                                  *)
(***************************************************************************)
AllProcs == {"p1", "p2"}

VARIABLES
    redis,          \* the store: key -> None or [value, ex]
    WEATHER_TTL_S,  \* int(os.getenv("WEATHER_TTL", "0"))
    started,        \* lookups started so far
    clients,        \* the tasks that run get_weather
    lookup,         \* per task: the locals of its current get_weather call
    prev,           \* per task: summary of its previous get_weather call
    call,           \* one call of _request_with_retry observed on its own
    env,            \* what the providers and Redis can do in this run
    probe           \* a function of cache.py called on its own: arguments and result

vars == <<redis, WEATHER_TTL_S, started, clients, lookup, prev, call, env, probe>>

city_key(city_name) == <<"city:">> \o normalize_city_name(city_name)
weather_key(city_name) == <<"weather:">> \o normalize_city_name(city_name)

Keys == {city_key(n) : n \in Names} \cup {weather_key(n) : n \in Names}

TtlValues == {0, 60}

IsNone(x) == "none" \in DOMAIN x

\* pc: idle, get_city, request, sleep, save_city, get_weather, save_weather, done
\* stage: the provider _request_with_retry is calling; response: the response it
\* returned to the caller of this stage; redis_error: the step taken last was a Redis call that raised;
\* redis_failed: one of them did; evicted: an entry expired or was flushed since
\* the call started; written: what the call stored under its weather key
NoLookup ==
    [pc |-> "idle", city_name |-> <<>>, stage |-> "none", attempt |-> 0, city |-> None,
     weather_data |-> None, response |-> None, result |-> None, geo_requests |-> 0,
     weather_requests |-> 0, sleeps |-> 0, redis_error |-> FALSE,
     redis_failed |-> FALSE, city_hit |-> FALSE, weather_hit |-> FALSE,
     written |-> None, evicted |-> FALSE]

\* clean: the call returned a Weather, no Redis call failed, nothing was evicted;
\* weather_failed: the call held a City and raised, no Redis call failed, nothing
\* was evicted; the name is kept for such calls only
NoPrev == [city_name |-> <<>>, clean |-> FALSE, weather_failed |-> FALSE]

NoCall == [pc |-> "idle", error_message |-> "", attempt |-> 0, log |-> <<>>,
           sleeps |-> <<>>, result |-> None]

\* providers that may answer anything and a Redis that may fail at any call
AnyEnv == [providers |-> "any", redis |-> "any"]

\* providers that are up and a Redis that works
UpEnv == [providers |-> "up", redis |-> "up"]

\* the outcomes of one GET of a stage that env allows
Allowed(stage) ==
    IF env.providers = "any"
    THEN Outcomes(IF stage = "city" THEN GeoBodies ELSE WeatherBodies)
    ELSE UpOutcomes(IF stage = "city" THEN UpGeoBodies ELSE UpWeatherBodies)

\* whether a Redis call may raise RedisError
RedisFails == IF env.redis = "any" THEN BOOLEAN ELSE {FALSE}

NoProbe == [op |-> "none"]

Init ==
    /\ redis = [k \in Keys |-> None]
    /\ WEATHER_TTL_S \in TtlValues
    /\ started = 0
    /\ clients = {"p1"}
    /\ lookup = [p \in AllProcs |-> NoLookup]
    /\ prev = [p \in AllProcs |-> NoPrev]
    /\ call = NoCall
    /\ env = AnyEnv
    /\ probe = NoProbe

\* lookup with the locals of task p changed to the record l
Locals(p, l) == [lookup EXCEPT ![p] = l]

\* the call of task p ends: it returns or raises r
Finish(l, r) == [l EXCEPT !.pc = "done", !.result = r]

(***************************************************************************)
(* Cache wrappers (cache.py).  fails: the Redis call raises RedisError.    *)
(***************************************************************************)
\* a get_city that lets RedisError escape
CityCache_get_city_raises(store, city_name, fails) ==
    IF fails THEN PyError("RedisError")
    ELSE LET entry == store[city_key(city_name)] IN
         IF IsNone(entry) THEN None ELSE city_from_json(entry.value)

\* a get_city that looks the entry up under the name as given
CityCache_get_city_raw_key(store, city_name, fails) ==
    IF fails THEN None
    ELSE LET key == <<"city:">> \o city_name IN
         IF key \notin DOMAIN store \/ IsNone(store[key]) THEN None
         ELSE city_from_json(store[key].value)

\* CityCache.get_city: None, a City, or the exception of City(**json.loads(..))
CityCache_get_city(store, city_name, fails) ==
    IF fails THEN None
    ELSE LET entry == store[city_key(city_name)] IN
         IF IsNone(entry) THEN None ELSE city_from_json(entry.value)

\* a save_city that keys the entry by the resolved city's name
CityCache_save_city_resolved(store, city_name, c, fails) ==
    IF fails \/ city_key(c.name) \notin DOMAIN store THEN store
    ELSE [store EXCEPT ![city_key(c.name)] =
              [value |-> city_model_dump_json(c), ex |-> 0]]

\* a save_city that writes nothing
CityCache_save_city_noop(store, city_name, c, fails) == store

\* a save_city that writes the entry with an expiry
CityCache_save_city_with_ttl(store, city_name, c, fails) ==
    IF fails THEN store
    ELSE [store EXCEPT ![city_key(city_name)] =
              [value |-> city_model_dump_json(c), ex |-> 60]]

\* a save_city that keeps an entry that is already there (SET ... NX)
CityCache_save_city_if_absent(store, city_name, c, fails) ==
    IF fails \/ ~IsNone(store[city_key(city_name)]) THEN store
    ELSE [store EXCEPT ![city_key(city_name)] =
              [value |-> city_model_dump_json(c), ex |-> 0]]

\* a save_city that keys the entry by the name as given
CityCache_save_city_raw_key(store, city_name, c, fails) ==
    IF fails \/ (<<"city:">> \o city_name) \notin DOMAIN store THEN store
    ELSE [store EXCEPT ![<<"city:">> \o city_name] =
              [value |-> city_model_dump_json(c), ex |-> 0]]

\* CityCache.save_city: the store afterwards
CityCache_save_city(store, city_name, c, fails) ==
    IF fails THEN store
    ELSE [store EXCEPT ![city_key(city_name)] =
              [value |-> city_model_dump_json(c), ex |-> 0]]

\* a get_weather that answers a miss with a default-valued Weather
WeatherCache_get_weather_default(store, city_name, fails) ==
    IF fails \/ IsNone(store[weather_key(city_name)])
    THEN Val([city |-> <<>>, time |-> [date |-> "2024-01-01", clock |-> "00:00", second |-> ":00"],
              temperature_c |-> 0, windspeed_kmh |-> 0, winddirection_deg |-> 0,
              is_day |-> FALSE, weather_code |-> 0, weather_description |-> <<>>])
    ELSE weather_from_json(store[weather_key(city_name)].value)

\* WeatherCache.get_weather: None, a Weather, or the exception of Weather(**..)
WeatherCache_get_weather(store, city_name, fails) ==
    IF fails THEN None
    ELSE LET entry == store[weather_key(city_name)] IN
         IF IsNone(entry) THEN None ELSE weather_from_json(entry.value)

\* ttl = WEATHER_TTL_S if WEATHER_TTL_S > 0 else None (0 stands for None)
weather_ttl(ttl_s) == IF ttl_s > 0 THEN ttl_s ELSE 0

\* a save_weather that serializes the snapshot under the name as given
save_weather_value_query_name(city_name, weather_data) ==
    from_api_response(city_name, weather_data)

\* the value WeatherCache.save_weather serializes
save_weather_value(city_name, weather_data) ==
    from_api_response(normalize_city_name(city_name), weather_data)

\* WeatherCache.save_weather, once the value is built: the store afterwards
WeatherCache_save_weather(store, city_name, w, ttl_s, fails) ==
    IF fails THEN store
    ELSE [store EXCEPT ![weather_key(city_name)] =
              [value |-> weather_model_dump_json(w), ex |-> weather_ttl(ttl_s)]]

(***************************************************************************)
(* get_weather, one action per I/O step of the call.                       *)
(***************************************************************************)
\* a task calls get_weather(city_name)
Start(p) ==
    /\ lookup[p].pc \in {"idle", "done"}
    /\ started < MaxLookups
    /\ \E name \in Names :
         lookup' = Locals(p, [NoLookup EXCEPT !.pc = "get_city", !.city_name = name])
    /\ prev' = [prev EXCEPT ![p] =
                   IF /\ lookup[p].pc = "done"
                      /\ lookup[p].result.ok
                      /\ ~lookup[p].redis_failed
                      /\ ~lookup[p].evicted
                   THEN [city_name |-> lookup[p].city_name, clean |-> TRUE,
                         weather_failed |-> FALSE]
                   ELSE IF /\ lookup[p].pc = "done"
                           /\ ~lookup[p].result.ok
                           /\ ~IsNone(lookup[p].city)
                           /\ ~lookup[p].redis_failed
                           /\ ~lookup[p].evicted
                   THEN [city_name |-> lookup[p].city_name, clean |-> FALSE,
                         weather_failed |-> TRUE]
                   ELSE NoPrev]
    /\ started' = started + 1
    /\ UNCHANGED <<redis, WEATHER_TTL_S, env, probe, clients, call>>

\* a get_weather that goes on to the weather cache when the city cache has no entry
GetCity_weather_first(p) ==
    /\ lookup[p].pc = "get_city"
    /\ \E fails \in RedisFails :
       \E l \in {[lookup[p] EXCEPT !.redis_failed = @ \/ fails, !.redis_error = fails]} :
       \E got \in {CityCache_get_city(redis, l.city_name, fails)} :
            lookup' = Locals(p,
              IF ~got.ok THEN Finish(l, got)
              ELSE IF IsNone(got)
              THEN [l EXCEPT !.pc = "get_weather"]
              ELSE [l EXCEPT !.pc = "get_weather", !.city = got.v, !.city_hit = TRUE])
    /\ UNCHANGED <<redis, WEATHER_TTL_S, env, probe, started, clients, prev, call>>

\* get_city_data: cache.get_city(city_name); a hit returns the city
GetCity(p) ==
    /\ lookup[p].pc = "get_city"
    /\ \E fails \in RedisFails :
       \E l \in {[lookup[p] EXCEPT !.redis_failed = @ \/ fails, !.redis_error = fails]} :
       \E got \in {CityCache_get_city(redis, l.city_name, fails)} :
            lookup' = Locals(p,
              IF ~got.ok THEN Finish(l, got)
              ELSE IF IsNone(got)
              THEN [l EXCEPT !.pc = "request", !.stage = "city", !.attempt = 1]
              ELSE [l EXCEPT !.pc = "get_weather", !.city = got.v, !.city_hit = TRUE])
    /\ UNCHANGED <<redis, WEATHER_TTL_S, env, probe, started, clients, prev, call>>

\* what follows a response that _request_with_retry returned
AfterResponse(l, outcome) ==
    IF l.stage = "city"
    THEN LET r == get_city_from_api_payload(l.city_name, outcome.body) IN
         IF r.ok THEN [l EXCEPT !.pc = "save_city", !.city = r.v] ELSE Finish(l, r)
    ELSE LET r == get_weather_data_from_api_payload(outcome.body) IN
         IF r.ok THEN [l EXCEPT !.pc = "save_weather", !.weather_data = r.v]
         ELSE Finish(l, r)

error_message(stage) == IF stage = "city" THEN "City lookup failed" ELSE "Weather lookup failed"

\* one httpx.get of _request_with_retry and what the loop does with its outcome
Request(p) ==
    /\ lookup[p].pc = "request"
    /\ \E outcome \in Allowed(lookup[p].stage) :
       \E l \in {[lookup[p] EXCEPT
                      !.redis_error = FALSE,
                      !.geo_requests = IF lookup[p].stage = "city" THEN @ + 1 ELSE @,
                      !.weather_requests = IF lookup[p].stage = "weather" THEN @ + 1 ELSE @]} :
       \E step \in {request_with_retry_attempt(l.attempt, outcome, error_message(l.stage))} :
            lookup' = Locals(p,
              CASE step.next = "return" -> AfterResponse([l EXCEPT !.response = outcome], outcome)
                [] step.next = "raise" -> Finish(l, ExternalAPIError(error_message(l.stage)))
                [] OTHER -> [l EXCEPT !.pc = "sleep"])
    /\ UNCHANGED <<redis, WEATHER_TTL_S, env, probe, started, clients, prev, call>>

\* time.sleep(delay), then the next iteration; after the last one the loop is
\* left and ExternalAPIError is raised
Sleep(p) ==
    /\ lookup[p].pc = "sleep"
    /\ LET l == [lookup[p] EXCEPT !.sleeps = @ + 1] IN
       lookup' = Locals(p,
          IF l.attempt + 1 <= RETRY_ATTEMPTS
          THEN [l EXCEPT !.pc = "request", !.attempt = @ + 1]
          ELSE Finish(l, ExternalAPIError(error_message(l.stage))))
    /\ UNCHANGED <<redis, WEATHER_TTL_S, env, probe, started, clients, prev, call>>

\* get_city_data: cache.save_city(city_name, city)
SaveCity(p) ==
    /\ lookup[p].pc = "save_city"
    /\ \E fails \in RedisFails :
         /\ redis' = CityCache_save_city(redis, lookup[p].city_name, lookup[p].city, fails)
         /\ lookup' = Locals(p, [lookup[p] EXCEPT !.pc = "get_weather",
                                                  !.redis_failed = @ \/ fails,
                                                  !.redis_error = fails])
    /\ UNCHANGED <<WEATHER_TTL_S, env, probe, started, clients, prev, call>>

\* get_weather: cache.get_weather(city_name); a hit is returned
GetWeather(p) ==
    /\ lookup[p].pc = "get_weather"
    /\ \E fails \in RedisFails :
       \E l \in {[lookup[p] EXCEPT !.redis_failed = @ \/ fails, !.redis_error = fails]} :
       \E got \in {WeatherCache_get_weather(redis, l.city_name, fails)} :
            lookup' = Locals(p,
              IF ~got.ok THEN Finish(l, got)
              ELSE IF IsNone(got)
              THEN [l EXCEPT !.pc = "request", !.stage = "weather", !.attempt = 1,
                             !.response = None]
              ELSE Finish([l EXCEPT !.weather_hit = TRUE], got))
    /\ UNCHANGED <<redis, WEATHER_TTL_S, env, probe, started, clients, prev, call>>

\* a get_weather that saves the snapshot under the name of the resolved city
SaveWeather_resolved_name(p) ==
    /\ lookup[p].pc = "save_weather"
    /\ \E l \in {lookup[p]} :
       \E w \in {save_weather_value(l.city.name, l.weather_data)} :
          IF ~w.ok
          THEN /\ lookup' = Locals(p, Finish([l EXCEPT !.redis_error = FALSE], w))
               /\ redis' = redis
          ELSE \E fails \in {f \in RedisFails : f \/ weather_key(l.city.name) \in Keys} :
               \E store \in {WeatherCache_save_weather(redis, l.city.name, w.v,
                                                        WEATHER_TTL_S, fails)} :
                 /\ redis' = store
                 /\ lookup' = Locals(p,
                      Finish([l EXCEPT !.redis_failed = @ \/ fails,
                                       !.redis_error = fails,
                                       !.written = IF fails THEN None
                                                   ELSE Val(store[weather_key(l.city.name)].value)],
                             from_api_response(l.city_name, l.weather_data)))
    /\ UNCHANGED <<WEATHER_TTL_S, env, probe, started, clients, prev, call>>

\* get_weather: cache.save_weather(city_name, weather_data), then
\* return Weather.from_api_response(city_name, weather_data)
SaveWeather(p) ==
    /\ lookup[p].pc = "save_weather"
    /\ \E l \in {lookup[p]} :
       \E w \in {save_weather_value(l.city_name, l.weather_data)} :
          IF ~w.ok
          THEN /\ lookup' = Locals(p, Finish([l EXCEPT !.redis_error = FALSE], w))
               /\ redis' = redis
          ELSE \E fails \in RedisFails :
               \E store \in {WeatherCache_save_weather(redis, l.city_name, w.v,
                                                        WEATHER_TTL_S, fails)} :
                 /\ redis' = store
                 /\ lookup' = Locals(p,
                      Finish([l EXCEPT !.redis_failed = @ \/ fails,
                                       !.redis_error = fails,
                                       !.written = IF fails THEN None
                                                   ELSE Val(store[weather_key(l.city_name)].value)],
                             from_api_response(l.city_name, l.weather_data)))
    /\ UNCHANGED <<WEATHER_TTL_S, env, probe, started, clients, prev, call>>

(***************************************************************************)
(* Two get_weather calls at the same time, in two workers that share the   *)
(* store, for names with the same key and with an empty store.             *)
(***************************************************************************)
SameCityNames == {<<"L", "o">>, <<"l", "o">>}

InitConcurrent ==
    /\ redis = [k \in Keys |-> None]
    /\ WEATHER_TTL_S \in TtlValues
    /\ started = MaxLookups
    /\ clients = AllProcs
    /\ \E names \in [AllProcs -> SameCityNames] :
         lookup = [p \in AllProcs |->
                     [NoLookup EXCEPT !.pc = "get_city", !.city_name = names[p]]]
    /\ prev = [p \in AllProcs |-> NoPrev]
    /\ call = NoCall
    /\ env = UpEnv
    /\ probe = NoProbe

(***************************************************************************)
(* The store loses entries: expiry of an entry written with ex, flushall.  *)
(***************************************************************************)
\* every call in progress or just ended has seen an eviction
Evicted == [p \in AllProcs |->
              IF lookup[p].pc = "idle" THEN lookup[p] ELSE [lookup[p] EXCEPT !.evicted = TRUE]]

Expire(k) ==
    /\ ~IsNone(redis[k])
    /\ redis[k].ex > 0
    /\ redis' = [redis EXCEPT ![k] = None]
    /\ lookup' = Evicted
    /\ UNCHANGED <<WEATHER_TTL_S, env, probe, started, clients, prev, call>>

Flush ==
    /\ \E k \in Keys : ~IsNone(redis[k])
    /\ redis' = [k \in Keys |-> None]
    /\ lookup' = Evicted
    /\ UNCHANGED <<WEATHER_TTL_S, env, probe, started, clients, prev, call>>

Next ==
    \/ \E p \in clients :
         \/ Start(p)
         \/ GetCity(p)
         \/ Request(p)
         \/ Sleep(p)
         \/ SaveCity(p)
         \/ GetWeather(p)
         \/ SaveWeather(p)
    \/ \E k \in Keys : Expire(k)
    \/ Flush

Spec == Init /\ [][Next]_vars

\* one step of the get_weather call of task p: a Redis call, a GET, a sleep
Step(p) ==
    /\ p \in clients
    /\ \/ GetCity(p)
       \/ Request(p)
       \/ Sleep(p)
       \/ SaveCity(p)
       \/ GetWeather(p)
       \/ SaveWeather(p)

NextLookups == \E p \in AllProcs : Step(p)

\* the entries get_weather leaves in the store for the two cities
CityEntry(entry) == [value |-> city_model_dump_json(City(entry.obj["name"],
                        entry.obj["country_code"], entry.obj["latitude"],
                        entry.obj["longitude"]).v), ex |-> 0]
WeatherEntry(city_name, ttl_s) ==
    [value |-> weather_model_dump_json(save_weather_value(city_name,
                  JObj([current_weather |-> CurrentWeather(
                      JStr(<<"2024-01-01", "T", "00:00">>), JNum(10), JNum(1), JNum(1))])).v),
     ex |-> weather_ttl(ttl_s)]

\* stores earlier lookups leave behind: empty, cities only, cities and weather
Stores(ttl_s) ==
    { [k \in Keys |-> None],
      [k \in Keys |->
          IF k = city_key(<<"L", "o">>) THEN CityEntry(LondonEntry)
          ELSE IF k = city_key(<<"N", " ", "Y">>) THEN CityEntry(NewYorkEntry)
          ELSE None],
      [k \in Keys |->
          IF k = city_key(<<"L", "o">>) THEN CityEntry(LondonEntry)
          ELSE IF k = city_key(<<"N", " ", "Y">>) THEN CityEntry(NewYorkEntry)
          ELSE IF k = weather_key(<<"L", "o">>) THEN WeatherEntry(<<"L", "o">>, ttl_s)
          ELSE WeatherEntry(<<"N", " ", "Y">>, ttl_s)] }

\* one task has just called get_weather; the store is what earlier calls left
InitFair ==
    /\ WEATHER_TTL_S \in TtlValues
    /\ redis \in Stores(WEATHER_TTL_S)
    /\ started = MaxLookups
    /\ clients = {"p1"}
    /\ \E name \in Names :
         lookup = [p \in AllProcs |->
                     IF p = "p1" THEN [NoLookup EXCEPT !.pc = "get_city", !.city_name = name]
                     ELSE NoLookup]
    /\ prev = [p \in AllProcs |-> NoPrev]
    /\ call = NoCall
    /\ env = AnyEnv
    /\ probe = NoProbe

\* every blocking call of a task returns or raises: Redis calls and GETs carry a
\* timeout, a sleep lasts at most RETRY_MAX_DELAY_S
SpecFair == InitFair /\ [][NextLookups]_vars /\ \A p \in AllProcs : WF_vars(Step(p))

\* task p can take a step: it is a client whose call is in progress
CanStep(p) == p \in clients /\ lookup[p].pc \notin {"idle", "done"}

\* Step(p) is enabled exactly when task p can take a step
StepEnabledIffCanStep == \A p \in AllProcs : CanStep(p) <=> ENABLED <<Step(p)>>_vars

\* two calls in progress, each blocking call of each of them returns or raises:
\* weak fairness of Step(p), that is []<>~ENABLED <<Step(p)>>_vars \/ []<><<Step(p)>>_vars,
\* with ENABLED <<Step(p)>>_vars written as CanStep(p)
FairStep(p) == []<>(~CanStep(p)) \/ []<><<Step(p)>>_vars
SpecConcurrent == InitConcurrent /\ [][NextLookups]_vars /\ \A p \in AllProcs : FairStep(p)

(***************************************************************************)
(* _request_with_retry on its own: one call, every attempt's outcome kept  *)
(* in call.log and every sleep in call.sleeps.                             *)
(***************************************************************************)
RetryStatuses == {200, 204, 301, 404, 429, 500, 502, 503, 504}

\* bodies that tell two responses of the same status apart
RetryBodies == {JStr(<<"a">>), JStr(<<"b">>)}

RetryOutcomes == {Response(st, b) : st \in RetryStatuses, b \in RetryBodies} \cup {RequestError}

RetryInit ==
    /\ redis = [k \in Keys |-> None]
    /\ WEATHER_TTL_S = 0
    /\ started = 0
    /\ clients = {}
    /\ lookup = [p \in AllProcs |-> NoLookup]
    /\ prev = [p \in AllProcs |-> NoPrev]
    /\ \E stage \in {"city", "weather"} :
         call = [NoCall EXCEPT !.pc = "request", !.error_message = error_message(stage),
                               !.attempt = 1]
    /\ env = AnyEnv
    /\ probe = NoProbe

\* one httpx.get and what the loop does with its outcome
CallRequest ==
    /\ call.pc = "request"
    /\ \E outcome \in RetryOutcomes :
         LET c == [call EXCEPT !.log = Append(@, outcome)]
             step == request_with_retry_attempt(c.attempt, outcome, c.error_message)
         IN call' =
              CASE step.next = "return" -> [c EXCEPT !.pc = "done", !.result = Val(outcome)]
                [] step.next = "raise" ->
                     [c EXCEPT !.pc = "done", !.result = ExternalAPIError(c.error_message)]
                [] OTHER -> [c EXCEPT !.pc = "sleep"]
    /\ UNCHANGED <<redis, WEATHER_TTL_S, env, probe, started, clients, lookup, prev>>

\* time.sleep(delay), then the next iteration or the raise after the loop
CallSleep ==
    /\ call.pc = "sleep"
    /\ LET c == [call EXCEPT !.sleeps = Append(@, retry_delay(call.attempt))] IN
       call' = IF c.attempt + 1 <= RETRY_ATTEMPTS
               THEN [c EXCEPT !.pc = "request", !.attempt = @ + 1]
               ELSE [c EXCEPT !.pc = "done", !.result = ExternalAPIError(c.error_message)]
    /\ UNCHANGED <<redis, WEATHER_TTL_S, env, probe, started, clients, lookup, prev>>

RetryNext == CallRequest \/ CallSleep

SpecRetry == RetryInit /\ [][RetryNext]_vars

(***************************************************************************)
(* Properties of _request_with_retry, under SpecRetry.                     *)
(***************************************************************************)
TwoXX(o) == ~o.error /\ 200 <= o.status_code /\ o.status_code <= 299
Retryable(o) == ~o.error /\ o.status_code \in {429, 500, 502, 503, 504}
Transport(o) == o.error
Fatal(o) == ~o.error /\ ~TwoXX(o) /\ ~Retryable(o)
Statuses_of(log) == [i \in 1..Len(log) |-> log[i].status_code]

\* C1: the call returns the response of the first attempt that yields a 2xx
\* status, when every earlier attempt ended in a retryable status or a transport
\* failure and the attempt is within the budget of 3: the call is over with that
\* attempt and its result is that very response.  After 503, 503, 200 exactly 3
\* attempts were made and the 200 response is returned.
C1_FirstSuccessReturned ==
    \A k \in 1..Len(call.log) :
        ( /\ k <= 3
          /\ TwoXX(call.log[k])
          /\ \A j \in 1..(k - 1) : Retryable(call.log[j]) \/ Transport(call.log[j]) )
        => /\ call.pc = "done"
           /\ Len(call.log) = k
           /\ call.result = Val(call.log[k])

C1_Witness ==
    /\ call.pc = "done"
    /\ Statuses_of(call.log) = <<503, 503, 200>>
    /\ call.result = Val(call.log[3])
    /\ call.log[3].body = JStr(<<"b">>)

\* C2: a non-2xx status outside {429, 500, 502, 503, 504} is fatal on whichever
\* attempt it occurs: ExternalAPIError is raised, no further GET is made and no
\* backoff sleep follows it.  An upstream that always answers 404 is asked once.
C2_FatalStatusImmediate ==
    \A k \in 1..Len(call.log) :
        Fatal(call.log[k])
        => /\ call.pc = "done"
           /\ call.result = ExternalAPIError(call.error_message)
           /\ Len(call.log) = k
           /\ Len(call.sleeps) = k - 1

C2_Witness ==
    /\ call.pc = "done"
    /\ Statuses_of(call.log) = <<404>>
    /\ call.sleeps = <<>>
    /\ call.result = ExternalAPIError(call.error_message)

\* C3: at most RETRY_ATTEMPTS (3) GETs are made; a retryable status or a
\* transport failure before the 3rd attempt does not end the call, and on the
\* 3rd attempt it raises ExternalAPIError; a call that is over has returned a
\* 2xx response or raised ExternalAPIError.
C3_BoundedAttempts ==
    /\ Len(call.log) <= 3
    /\ \A k \in 1..Len(call.log) :
         (Retryable(call.log[k]) \/ Transport(call.log[k]))
         => IF k < 3
            THEN call.pc = "done" => Len(call.log) > k
            ELSE call.pc = "done" /\ call.result = ExternalAPIError(call.error_message)
    /\ call.pc = "done"
       => \/ call.result = ExternalAPIError(call.error_message)
          \/ /\ call.result.ok
             /\ ~IsNone(call.result)
             /\ TwoXX(call.result.v)
             /\ call.result.v = call.log[Len(call.log)]

C3_Witness ==
    /\ call.pc = "done"
    /\ Statuses_of(call.log) = <<429, 0, 504>>
    /\ Len(call.sleeps) = 2
    /\ call.result = ExternalAPIError(call.error_message)

\* C19: the sleep after failed attempt k is min(0.3 * 2^(k-1), 2.0) s, 300 ms
\* after the first and 600 ms after the second; a sleep happens only after an
\* attempt that ended in a retryable status or a transport failure and that was
\* not the 3rd, so a finished call has slept once less than it has made
\* attempts, and every sleep is followed by another attempt.
C19_BackoffBetweenAttempts ==
    /\ \A k \in 1..Len(call.sleeps) :
         /\ call.sleeps[k] = Min(300 * (2 ^ (k - 1)), 2000)
         /\ call.sleeps[k] = IF k = 1 THEN 300 ELSE 600
         /\ k < 3
         /\ k <= Len(call.log)
         /\ Retryable(call.log[k]) \/ Transport(call.log[k])
    /\ call.pc = "done" => Len(call.sleeps) = Len(call.log) - 1
    /\ call.pc = "sleep" => Len(call.sleeps) = Len(call.log) - 1
    /\ call.pc = "request" => Len(call.sleeps) = Len(call.log)

C19_Witness ==
    /\ call.pc = "done"
    /\ Statuses_of(call.log) = <<500, 0, 204>>
    /\ call.sleeps = <<300, 600>>
    /\ call.result = Val(call.log[3])

(***************************************************************************)
(* Properties of get_weather, under Spec.                                  *)
(***************************************************************************)
Done(p) == lookup[p].pc = "done"

\* C4: get_weather fails only with CityNotFoundError or ExternalAPIError; a 2xx
\* response with a malformed or incomplete body never leaks a raw parsing
\* exception to the caller.
C4_OnlyServiceErrors ==
    \A p \in AllProcs :
        Done(p) => \/ lookup[p].result.ok
                   \/ lookup[p].result.exc \in {"CityNotFoundError", "ExternalAPIError"}

\* the state a cache miss leaves the call in, before the first request of stage
Missed(l, stage) ==
    [l EXCEPT !.pc = "request", !.stage = stage, !.attempt = 1, !.response = None,
              !.redis_error = TRUE, !.redis_failed = TRUE]

\* C5: a failing cache read leaves the call exactly where a miss on an empty
\* store leaves it, a failing cache write changes nothing in the store and the
\* call goes on as after a write; a call in which Redis calls failed returns
\* the snapshot built from the provider's payload, and no RedisError ever
\* becomes the outcome of a lookup.
C5_CacheFailuresAbsorbed ==
    [][\A p \in AllProcs :
        LET a == lookup[p]
            b == lookup'[p]
            failed == b.pc # a.pc /\ b.redis_error
        IN /\ Done(p)' => (b.result.ok \/ b.result.exc # "RedisError")
           /\ (Done(p)' /\ b.redis_failed /\ b.result.ok /\ ~b.weather_hit)
              => b.result = from_api_response(b.city_name, b.weather_data)
           /\ (a.pc = "get_city" /\ failed)
              => /\ b = Missed(a, "city")
                 /\ redis' = redis
           /\ (a.pc = "get_weather" /\ failed)
              => /\ b = Missed(a, "weather")
                 /\ redis' = redis
           /\ (a.pc = "save_city" /\ failed)
              => /\ b = [a EXCEPT !.pc = "get_weather", !.redis_error = TRUE,
                                  !.redis_failed = TRUE]
                 /\ redis' = redis
           /\ (a.pc = "save_weather" /\ failed)
              => /\ b.pc = "done"
                 /\ b.result = from_api_response(a.city_name, a.weather_data)
                 /\ IsNone(b.written)
                 /\ redis' = redis
      ]_vars

\* a lookup whose city read failed although the entry was there, and whose
\* weather write failed, returned a snapshot
C5_Witness ==
    \E p \in AllProcs :
        /\ Done(p)
        /\ prev[p].clean
        /\ prev[p].city_name = lookup[p].city_name
        /\ ~lookup[p].evicted
        /\ lookup[p].redis_error
        /\ lookup[p].geo_requests > 0
        /\ lookup[p].weather_requests > 0
        /\ lookup[p].result.ok

\* C6: when get_weather(c) returned a snapshot with every Redis call succeeding
\* and nothing evicted, the next get_weather(c) of the task, again with a working
\* cache and no eviction, sends no request to either provider.
C6_SecondLookupNoUpstream ==
    \A p \in AllProcs :
        ( /\ lookup[p].pc # "idle"
          /\ prev[p].clean
          /\ prev[p].city_name = lookup[p].city_name
          /\ ~lookup[p].redis_failed
          /\ ~lookup[p].evicted )
        => /\ lookup[p].geo_requests = 0
           /\ lookup[p].weather_requests = 0

C6_Witness ==
    \E p \in AllProcs :
        /\ Done(p)
        /\ prev[p].clean
        /\ prev[p].city_name = lookup[p].city_name
        /\ ~lookup[p].redis_failed
        /\ ~lookup[p].evicted
        /\ lookup[p].city_hit
        /\ lookup[p].weather_hit
        /\ lookup[p].result.ok

\* C7 as stated: the snapshot a later hit returns (the one decoded from what the
\* miss wrote) equals the snapshot the miss returned, in every field.
C7_HitEqualsMiss ==
    \A p \in AllProcs :
        (Done(p) /\ ~IsNone(lookup[p].written))
        => weather_from_json(lookup[p].written.v) = lookup[p].result

\* C7 amended: on a miss get_weather returns from_api_response(cityName, raw)
\* and writes from_api_response(normalize(cityName), raw); the snapshot decoded
\* from what was written equals the returned one in every field but city, which
\* is normalize(cityName) in the cache and cityName in the returned snapshot;
\* every snapshot returned by a hit has city = normalize(cityName).
C7_HitEqualsMissButCity ==
    \A p \in AllProcs :
        /\ (Done(p) /\ ~IsNone(lookup[p].written))
           => /\ lookup[p].result = from_api_response(lookup[p].city_name, lookup[p].weather_data)
              /\ lookup[p].result.ok
              /\ lookup[p].result.v.city = lookup[p].city_name
              /\ weather_from_json(lookup[p].written.v)
                   = Val([lookup[p].result.v EXCEPT
                             !.city = normalize_city_name(lookup[p].city_name)])
        /\ (Done(p) /\ lookup[p].weather_hit)
           => /\ lookup[p].result.ok
              /\ lookup[p].result.v.city = normalize_city_name(lookup[p].city_name)

C7_Witness ==
    \E p \in AllProcs :
        /\ Done(p)
        /\ ~IsNone(lookup[p].written)
        /\ lookup[p].city_name = <<"L", "o">>
        /\ lookup[p].result.ok
        /\ lookup[p].result.v.city = <<"L", "o">>
        /\ weather_from_json(lookup[p].written.v).v.city = <<"l", "o">>

\* C8: when the store holds an entry under city:normalize(cityName) and the
\* read returns it, get_city_data returns the City decoded from that entry and
\* no geocoding request is sent in this lookup.
C8_CityHitNoGeocoding ==
    [][\A p \in AllProcs :
        LET a == lookup[p]
            b == lookup'[p]
        IN /\ b.city_hit => b.geo_requests = 0
           /\ ( /\ a.pc = "get_city"
                /\ b.pc # a.pc
                /\ ~b.redis_error
                /\ ~IsNone(redis[city_key(a.city_name)]) )
              => /\ b.pc = "get_weather"
                 /\ b.city_hit
                 /\ Val(b.city) = city_from_json(redis[city_key(a.city_name)].value)
                 /\ b.geo_requests = 0
      ]_vars

\* a hit for the query "Lo" on an entry written by a lookup of "lo"
C8_Witness ==
    \E p \in AllProcs :
        /\ Done(p)
        /\ lookup[p].city_hit
        /\ lookup[p].city_name = <<"L", "o">>
        /\ prev[p].city_name = <<"l", "o">>
        /\ lookup[p].city.name = <<"N", "Y">>
        /\ lookup[p].geo_requests = 0

\* the geocoding response returned to get_city_from_api by task p
GeoBody(p) == lookup[p].response.body
HasGeoResponse(p) == lookup[p].stage = "city" /\ ~IsNone(lookup[p].response)

\* a JSON object whose results array is absent or empty
NoResults(body) ==
    /\ "obj" \in DOMAIN body
    /\ \/ "results" \notin DOMAIN body.obj
       \/ body.obj["results"] = JArr(<<>>)

BadFirstResult(body) ==
    /\ "obj" \in DOMAIN body
    /\ "results" \in DOMAIN body.obj
    /\ "arr" \in DOMAIN body.obj["results"]
    /\ Len(body.obj["results"].arr) > 0
    /\ LET e == body.obj["results"].arr[1] IN
       \/ "obj" \notin DOMAIN e
       \/ ~({"name", "country_code", "latitude", "longitude"} \subseteq DOMAIN e.obj)
       \/ "str" \notin DOMAIN e.obj["name"]
       \/ "str" \notin DOMAIN e.obj["country_code"]
       \/ "num" \notin DOMAIN e.obj["latitude"]
       \/ "num" \notin DOMAIN e.obj["longitude"]

\* C10: a 2xx geocoding response whose first result lacks a field or carries one
\* of the wrong type makes get_city_from_api raise
\* ExternalAPIError("City lookup failed"), never a raw parsing or validation error.
C10_BadResultExternalAPIError ==
    \A p \in AllProcs :
        (HasGeoResponse(p) /\ BadFirstResult(GeoBody(p)))
        => /\ Done(p)
           /\ lookup[p].result = Exc("ExternalAPIError", "City lookup failed", <<>>)

(***************************************************************************)
(* The weather payload.                                                    *)
(***************************************************************************)
\* the weather response returned to get_weather_data_from_api by task p
WeatherBody(p) == lookup[p].response.body
HasWeatherResponse(p) == lookup[p].stage = "weather" /\ ~IsNone(lookup[p].response)

\* a JSON object or array without a member "current_weather"
NoCurrentWeatherKey(body) ==
    \/ "obj" \in DOMAIN body /\ "current_weather" \notin DOMAIN body.obj
    \/ /\ "arr" \in DOMAIN body
       /\ \A i \in 1..Len(body.arr) : body.arr[i] # JStr(<<"current_weather">>)

\* C11: a 2xx weather response whose body has no current_weather key ends the
\* lookup with ExternalAPIError("Weather lookup failed"); it was the last weather
\* request of the lookup, and the lookup stored nothing under its weather key:
\* the step that received the response left the store as it was.
C11_NoCurrentWeatherKey ==
    [][\A p \in AllProcs :
         (HasWeatherResponse(p)' /\ NoCurrentWeatherKey(WeatherBody(p))')
         => /\ Done(p)'
            /\ lookup'[p].result = Exc("ExternalAPIError", "Weather lookup failed", <<>>)
            /\ lookup'[p].weather_requests = lookup'[p].attempt
            /\ IsNone(lookup'[p].written)
            /\ (lookup[p].pc = "request") => redis' = redis
      ]_vars

C11_Witness ==
    \E p \in AllProcs :
        /\ HasWeatherResponse(p)
        /\ WeatherBody(p) = JObj([error |-> JBool(TRUE)])
        /\ lookup[p].weather_requests = 2
        /\ lookup[p].geo_requests = 1
        /\ IsNone(redis[weather_key(lookup[p].city_name)])
        /\ ~IsNone(redis[city_key(lookup[p].city_name)])
        /\ lookup[p].result = Exc("ExternalAPIError", "Weather lookup failed", <<>>)

(***************************************************************************)
(* normalize_city_name on its own: two names and the keys they give.       *)
(***************************************************************************)
Chars == {"N", "n", " ", "_"}

\* the strings over Chars of length at most n
Strings(n) == UNION {[1..k -> Chars] : k \in 0..n}

InitNorm ==
    /\ redis = [k \in Keys |-> None]
    /\ WEATHER_TTL_S = 0
    /\ started = 0
    /\ clients = {}
    /\ lookup = [p \in AllProcs |-> NoLookup]
    /\ prev = [p \in AllProcs |-> NoPrev]
    /\ call = NoCall
    /\ env = AnyEnv
    /\ \E x \in Strings(MaxNameLen), y \in Strings(MaxOtherLen) :
         probe = [op |-> "names", x |-> x, y |-> y]

\* normalize_city_name(x), normalize_city_name(y) and the four keys
Normalize ==
    /\ probe.op = "names"
    /\ \E x \in {probe.x}, y \in {probe.y} :
         probe' = [op |-> "normalize", x |-> x, y |-> y,
                   nx |-> normalize_city_name(x), ny |-> normalize_city_name(y),
                   city_x |-> city_key(x), city_y |-> city_key(y),
                   weather_x |-> weather_key(x), weather_y |-> weather_key(y)]
    /\ UNCHANGED <<redis, WEATHER_TTL_S, started, clients, lookup, prev, call, env>>

SpecNorm == InitNorm /\ [][Normalize]_vars

(***************************************************************************)
(* CityCache and WeatherCache on their own: saves and reads in any order.  *)
(* probe.saved is, per key, what the last successful save since the last   *)
(* flush or expiry of the key was called with.                             *)
(***************************************************************************)
Cities == {City(e.obj["name"], e.obj["country_code"], e.obj["latitude"],
                e.obj["longitude"]).v : e \in {LondonEntry, NewYorkEntry}}

\* the payloads save_weather is called with: the bodies that are JSON
WeatherPayloads == {b \in WeatherBodies : T(b) # "invalid"}

InitCache ==
    /\ redis = [k \in Keys |-> None]
    /\ WEATHER_TTL_S \in TtlValues
    /\ started = 0
    /\ clients = {}
    /\ lookup = [p \in AllProcs |-> NoLookup]
    /\ prev = [p \in AllProcs |-> NoPrev]
    /\ call = NoCall
    /\ env = AnyEnv
    /\ probe = [op |-> "none", city_name |-> <<>>, fails |-> FALSE, result |-> None,
                saved |-> [k \in Keys |-> None]]

UnchangedButCache == UNCHANGED <<WEATHER_TTL_S, started, clients, lookup, prev, call, env>>

\* cache.save_city(city_name, city)
ProbeSaveCity ==
    /\ \E city_name \in Names, city \in Cities, fails \in RedisFails :
         /\ redis' = CityCache_save_city(redis, city_name, city, fails)
         /\ probe' = [probe EXCEPT !.op = "save_city", !.city_name = city_name,
                                   !.fails = fails, !.result = None,
                                   !.saved = IF fails THEN @
                                             ELSE [@ EXCEPT ![city_key(city_name)] =
                                                      Val([city_name |-> city_name, arg |-> city])]]
    /\ UnchangedButCache

\* cache.get_city(city_name)
ProbeGetCity ==
    /\ \E city_name \in Names, fails \in RedisFails :
         probe' = [probe EXCEPT !.op = "get_city", !.city_name = city_name, !.fails = fails,
                                !.result = CityCache_get_city(redis, city_name, fails)]
    /\ redis' = redis
    /\ UnchangedButCache

\* cache.save_weather(city_name, weather_data)
ProbeSaveWeather ==
    /\ \E city_name \in Names, weather_data \in WeatherPayloads :
       \E w \in {save_weather_value(city_name, weather_data)} :
         IF ~w.ok
         THEN /\ redis' = redis
              /\ probe' = [probe EXCEPT !.op = "save_weather", !.city_name = city_name,
                                        !.fails = FALSE, !.result = w]
         ELSE \E fails \in RedisFails :
              /\ redis' = WeatherCache_save_weather(redis, city_name, w.v, WEATHER_TTL_S, fails)
              /\ probe' = [probe EXCEPT !.op = "save_weather", !.city_name = city_name,
                                        !.fails = fails, !.result = None,
                                        !.saved = IF fails THEN @
                                                  ELSE [@ EXCEPT ![weather_key(city_name)] =
                                                           Val([city_name |-> city_name,
                                                                arg |-> weather_data])]]
    /\ UnchangedButCache

\* cache.get_weather(city_name)
ProbeGetWeather ==
    /\ \E city_name \in Names, fails \in RedisFails :
         probe' = [probe EXCEPT !.op = "get_weather", !.city_name = city_name, !.fails = fails,
                                !.result = WeatherCache_get_weather(redis, city_name, fails)]
    /\ redis' = redis
    /\ UnchangedButCache

\* an entry written with ex expires
ProbeExpire ==
    /\ \E k \in Keys :
         /\ ~IsNone(redis[k])
         /\ redis[k].ex > 0
         /\ redis' = [redis EXCEPT ![k] = None]
         /\ probe' = [probe EXCEPT !.op = "expire", !.saved = [@ EXCEPT ![k] = None]]
    /\ UnchangedButCache

\* flushall
ProbeFlush ==
    /\ \E k \in Keys : ~IsNone(redis[k])
    /\ redis' = [k \in Keys |-> None]
    /\ probe' = [probe EXCEPT !.op = "flush", !.saved = [k \in Keys |-> None]]
    /\ UnchangedButCache

NextCache ==
    \/ ProbeSaveCity
    \/ ProbeGetCity
    \/ ProbeSaveWeather
    \/ ProbeGetWeather
    \/ ProbeExpire
    \/ ProbeFlush

SpecCache == InitCache /\ [][NextCache]_vars

(***************************************************************************)
(* The snapshot of a full miss, under Spec.                                *)
(***************************************************************************)
\* a weather body whose current_weather carries the six fields, well typed
WellFormedWeather(body) ==
    /\ "obj" \in DOMAIN body
    /\ "current_weather" \in DOMAIN body.obj
    /\ "obj" \in DOMAIN body.obj["current_weather"]
    /\ LET cw == body.obj["current_weather"].obj IN
       /\ {"time", "temperature", "windspeed", "winddirection", "is_day", "weathercode"}
             \subseteq DOMAIN cw
       /\ "str" \in DOMAIN cw["time"]
       /\ Len(cw["time"].str) = 3
       /\ cw["time"].str[1] \in IsoDates
       /\ cw["time"].str[3] \in IsoClocks
       /\ \A f \in {"temperature", "windspeed", "winddirection", "is_day", "weathercode"} :
             "num" \in DOMAIN cw[f]

\* C18: when both caches missed and both providers answered 2xx with
\* well-formed bodies, get_weather returns a Weather whose city is the query
\* name as given, whose temperature_c, windspeed_kmh and winddirection_deg are
\* those of current_weather, whose is_day is true iff current_weather.is_day is
\* not zero, and whose weather_description is the table entry of weathercode
\* ("Mainly clear" for 1), "Unknown" for every code outside the table.
C18_FullMissSnapshot ==
    /\ \A p \in AllProcs :
         ( /\ Done(p)
           /\ ~lookup[p].city_hit
           /\ ~lookup[p].weather_hit
           /\ HasWeatherResponse(p)
           /\ WellFormedWeather(WeatherBody(p)) )
         => LET cw == WeatherBody(p).obj["current_weather"].obj
                w == lookup[p].result
            IN /\ w.ok
               /\ ~IsNone(w)
               /\ w.v.city = lookup[p].city_name
               /\ w.v.temperature_c = cw["temperature"].num
               /\ w.v.windspeed_kmh = cw["windspeed"].num
               /\ w.v.winddirection_deg = cw["winddirection"].num
               /\ w.v.is_day = (cw["is_day"].num # 0)
               /\ w.v.weather_code = cw["weathercode"].num
               /\ w.v.time = [date |-> cw["time"].str[1], clock |-> cw["time"].str[3],
                              second |-> ":00"]
               /\ cw["weathercode"].num = 1 => w.v.weather_description = <<"Mainly clear">>
               /\ cw["weathercode"].num \notin weather_codes
                    => w.v.weather_description = <<"Unknown">>
    /\ \A code \in 0..4 \cup {99, 100} :
         weather_code_description(JNum(code)) =
            IF \E i \in 1..Len(WEATHER_CODE_MAP) : WEATHER_CODE_MAP[i][1] = code
            THEN Val(WEATHER_CODE_MAP[CHOOSE i \in 1..Len(WEATHER_CODE_MAP) :
                                         WEATHER_CODE_MAP[i][1] = code][2])
            ELSE Val(<<"Unknown">>)

C18_Witness ==
    \E p \in AllProcs :
        /\ Done(p)
        /\ ~lookup[p].city_hit
        /\ ~lookup[p].weather_hit
        /\ lookup[p].geo_requests = 1
        /\ lookup[p].weather_requests = 1
        /\ lookup[p].city_name = <<"L", "o">>
        /\ lookup[p].result.ok
        /\ lookup[p].result.v.city = <<"L", "o">>
        /\ lookup[p].result.v.temperature_c = -3
        /\ lookup[p].result.v.is_day = FALSE
        /\ lookup[p].result.v.weather_code = 4
        /\ lookup[p].result.v.weather_description = <<"Unknown">>

(***************************************************************************)
(* Properties of the cache wrappers, under SpecCache.                      *)
(***************************************************************************)
\* what the last successful save under the key of the name read was called with
SavedCity == probe.saved[city_key(probe.city_name)]
SavedWeather == probe.saved[weather_key(probe.city_name)]

\* C15: after a successful save_city(name, c), with no later write to the key
\* and no flush, a get_city(name) whose Redis call succeeds returns a City
\* equal to c in name, country_code, latitude and longitude.
C15_CityRoundTrip ==
    (probe.op = "get_city" /\ ~probe.fails /\ ~IsNone(SavedCity))
    => /\ probe.result.ok
       /\ ~IsNone(probe.result)
       /\ probe.result.v.name = SavedCity.v.arg.name
       /\ probe.result.v.country_code = SavedCity.v.arg.country_code
       /\ probe.result.v.latitude = SavedCity.v.arg.latitude
       /\ probe.result.v.longitude = SavedCity.v.arg.longitude
       /\ DOMAIN probe.result.v = {"name", "country_code", "latitude", "longitude"}

C15_Witness ==
    /\ probe.op = "get_city"
    /\ probe.city_name = <<"N", " ", "Y">>
    /\ ~IsNone(SavedCity)
    /\ SavedCity.v.city_name = <<"N", " ", "Y">>
    /\ probe.result = Val([name |-> <<"L", "o">>, country_code |-> <<"G", "B">>,
                           latitude |-> 51, longitude |-> 0])
    /\ ~IsNone(probe.saved[city_key(<<"l", "o">>)])

\* C16: get_city(name) and get_weather(name) return None whenever no entry is
\* stored under the normalized key, whatever is stored under other keys; what
\* they return is None or the model stored under the key, never a default.
C16_MissIsNone ==
    /\ probe.op = "get_city"
       => /\ IsNone(redis[city_key(probe.city_name)]) => IsNone(probe.result)
          /\ IsNone(SavedCity) => IsNone(probe.result)
          /\ IsNone(probe.result) \/ probe.result = Val(SavedCity.v.arg)
    /\ probe.op = "get_weather"
       => /\ IsNone(redis[weather_key(probe.city_name)]) => IsNone(probe.result)
          /\ IsNone(SavedWeather) => IsNone(probe.result)
          /\ IsNone(probe.result)
             \/ probe.result = from_api_response(normalize_city_name(probe.city_name),
                                                  SavedWeather.v.arg)

C16_Witness ==
    /\ probe.op = "get_weather"
    /\ ~probe.fails
    /\ probe.city_name = <<"L", "o">>
    /\ IsNone(probe.result)
    /\ ~IsNone(redis[weather_key(<<"N", " ", "Y">>)])
    /\ ~IsNone(redis[city_key(<<"L", "o">>)])

\* C17: after a successful save_weather(name, payload), a get_weather(name)
\* that finds the entry returns a Weather, not None, whose city is the
\* normalized name and whose temperature_c is payload.current_weather.temperature.
C17_WeatherRoundTrip ==
    (probe.op = "get_weather" /\ ~probe.fails /\ ~IsNone(SavedWeather))
    => /\ probe.result.ok
       /\ ~IsNone(probe.result)
       /\ probe.result.v.city = normalize_city_name(SavedWeather.v.city_name)
       /\ probe.result.v.city = normalize_city_name(probe.city_name)
       /\ probe.result.v.temperature_c
            = SavedWeather.v.arg.obj["current_weather"].obj["temperature"].num

C17_Witness ==
    /\ probe.op = "get_weather"
    /\ probe.city_name = <<"N", " ", "Y">>
    /\ ~IsNone(SavedWeather)
    /\ SavedWeather.v.city_name = <<"N", " ", "Y">>
    /\ probe.result.ok
    /\ ~IsNone(probe.result)
    /\ probe.result.v.city = <<"n", "_", "y">>
    /\ probe.result.v.temperature_c = -3

(***************************************************************************)
(* Properties of normalize_city_name, under SpecNorm.                      *)
(***************************************************************************)
Normalized == probe.op = "normalize"

\* the letters of Chars in lower case
Lowered(c) == IF c = "N" THEN "n" ELSE c

\* positions of the first and the last character of x that is no space
FirstInk(x) == IF \E i \in 1..Len(x) : x[i] # " "
               THEN CHOOSE i \in 1..Len(x) : x[i] # " " /\ \A j \in 1..(i - 1) : x[j] = " "
               ELSE Len(x) + 1
LastInk(x) == IF \E i \in 1..Len(x) : x[i] # " "
              THEN CHOOSE i \in 1..Len(x) : x[i] # " " /\ \A j \in (i + 1)..Len(x) : x[j] = " "
              ELSE Len(x)

\* x in lower case without its leading and trailing spaces
TrimLower(x) == [k \in 1..(LastInk(x) - FirstInk(x) + 1) |-> Lowered(x[FirstInk(x) + k - 1])]

\* x and y are the same up to letter case and spaces
OnlyCaseOrWhitespace(x, y) ==
    SelectSeq(TrimLower(x), LAMBDA c : c # " ") = SelectSeq(TrimLower(y), LAMBDA c : c # " ")

\* a and b have the same length and agree everywhere, a space counting as "_"
AgreeUpToUnderscore(a, b) ==
    /\ Len(a) = Len(b)
    /\ \A k \in 1..Len(a) : \/ a[k] = b[k]
                             \/ {a[k], b[k]} = {" ", "_"}

SameKeys == probe.city_x = probe.city_y /\ probe.weather_x = probe.weather_y
DifferentKeys == probe.city_x # probe.city_y /\ probe.weather_x # probe.weather_y

\* C13 as stated: two names that differ only by letter case and/or whitespace
\* have the same city: and weather: keys, and two names that differ otherwise
\* have different keys.
C13_CaseWhitespaceCollide ==
    Normalized =>
        /\ OnlyCaseOrWhitespace(probe.x, probe.y) => SameKeys
        /\ ~OnlyCaseOrWhitespace(probe.x, probe.y) => DifferentKeys

\* C13: two names have the same city: and weather: keys exactly when, in
\* lower case and without leading and trailing spaces, they have the same
\* length and agree at every position, a space counting as an underscore;
\* otherwise both keys differ.  Names that differ only by letter case or by
\* leading and trailing spaces collide.
C13_SameKeysIffSameTrimmed ==
    Normalized =>
        /\ SameKeys <=> AgreeUpToUnderscore(TrimLower(probe.x), TrimLower(probe.y))
        /\ SameKeys \/ DifferentKeys
        /\ TrimLower(probe.x) = TrimLower(probe.y) => SameKeys

C13_Witness ==
    /\ Normalized
    /\ probe.x = <<" ", "N", " ", "n">>
    /\ probe.y = <<"n", " ", "N">>
    /\ SameKeys
    /\ probe.city_x = <<"city:", "n", "_", "n">>

\* C14: normalize_city_name(x) is x in lower case, without its leading and
\* trailing whitespace, with every remaining space replaced by one underscore
\* (a run of spaces gives a run of underscores); "New York" gives "new_york",
\* "Tel Aviv" gives "tel_aviv", "Rio de Janeiro" gives "rio_de_janeiro".
C14_NormalizeDefinition ==
    /\ Normalized =>
          /\ probe.nx = [k \in 1..Len(TrimLower(probe.x)) |->
                           IF TrimLower(probe.x)[k] = " " THEN "_" ELSE TrimLower(probe.x)[k]]
          /\ probe.ny = [k \in 1..Len(TrimLower(probe.y)) |->
                           IF TrimLower(probe.y)[k] = " " THEN "_" ELSE TrimLower(probe.y)[k]]
    /\ normalize_city_name(<<"N", "e", "w", " ", "Y", "o", "r", "k">>)
          = <<"n", "e", "w", "_", "y", "o", "r", "k">>
    /\ normalize_city_name(<<"T", "e", "l", " ", "A", "v", "i", "v">>)
          = <<"t", "e", "l", "_", "a", "v", "i", "v">>
    /\ normalize_city_name(<<"R", "i", "o", " ", "d", "e", " ", "J", "a", "n", "e", "i", "r", "o">>)
          = <<"r", "i", "o", "_", "d", "e", "_", "j", "a", "n", "e", "i", "r", "o">>

C14_Witness ==
    /\ Normalized
    /\ probe.x = <<"N", " ", " ", "n">>
    /\ probe.nx = <<"n", "_", "_", "n">>
    /\ probe.y = <<" ", "N", " ">>
    /\ probe.ny = <<"n">>

(***************************************************************************)
(* Termination of get_weather, under SpecFair.                             *)
(***************************************************************************)
Running(p) == lookup[p].pc \notin {"idle", "done"}

\* the shape of a call: which stage it is in goes with where it stands, and each
\* stage makes at most RETRY_ATTEMPTS requests
WellFormedPath(p) ==
    LET l == lookup[p] IN
    /\ l.geo_requests <= 3
    /\ l.weather_requests <= 3
    /\ l.pc \in {"idle", "get_city"} => l.stage = "none"
    /\ l.pc = "save_city" => l.stage = "city"
    /\ l.pc = "save_weather" => l.stage = "weather"
    /\ l.city_hit => l.geo_requests = 0
    /\ l.weather_hit => l.weather_requests = 0
    /\ l.stage = "weather" => ~IsNone(l.city)
    /\ l.weather_requests > 0 => l.stage = "weather"

\* C12: every lookup that started ends, in DONE with a snapshot or in FAIL with
\* CityNotFoundError or ExternalAPIError; on the way it goes through the city
\* stage and then the weather stage, with at most 3 requests to each provider.
C12_TerminatesDoneOrFail ==
    /\ [](\A p \in AllProcs : WellFormedPath(p))
    /\ \A p \in AllProcs :
         Running(p) ~> ( /\ Done(p)
                         /\ \/ lookup[p].result.ok
                            \/ lookup[p].result.exc \in {"CityNotFoundError", "ExternalAPIError"} )

\* every lookup that started ends, whatever its outcome, within the same path
C12_Terminates ==
    /\ [](\A p \in AllProcs : WellFormedPath(p))
    /\ \A p \in AllProcs : Running(p) ~> Done(p)

(***************************************************************************)
(* Two concurrent lookups of one city, under SpecConcurrent.               *)
(***************************************************************************)
\* task p writes its city entry, its weather entry
WritesCity(p) == lookup[p].pc = "save_city" /\ lookup'[p].pc = "get_weather"
WritesWeather(p) == lookup[p].pc = "save_weather" /\ lookup'[p].pc = "done"

\* C20: nothing keeps two concurrent lookups of one uncached city from both
\* missing the city cache and both asking the geocoding provider; both lookups
\* end; every cache write replaces the whole entry under its key by the
\* writer's value and leaves the other keys alone, so that the entry is the
\* value of the write that happened last.
C20_NoStampedeProtection ==
    /\ [][\A p \in AllProcs :
            /\ WritesCity(p)
               => /\ redis'[city_key(lookup[p].city_name)]
                       = [value |-> city_model_dump_json(lookup[p].city), ex |-> 0]
                  /\ \A k \in Keys \ {city_key(lookup[p].city_name)} : redis'[k] = redis[k]
            /\ WritesWeather(p)
               => /\ redis'[weather_key(lookup[p].city_name)].value = lookup'[p].written.v
                  /\ \A k \in Keys \ {weather_key(lookup[p].city_name)} : redis'[k] = redis[k]
        ]_vars
    /\ \A p \in AllProcs : Running(p) ~> Done(p)
    /\ <>[](\A p \in AllProcs : Done(p))

\* both lookups missed the city cache, both asked the geocoding provider, they
\* were given different cities, both ended, and the entry is the second writer's
C20_Witness ==
    /\ \A p \in AllProcs :
         /\ Done(p)
         /\ ~lookup[p].city_hit
         /\ lookup[p].geo_requests >= 1
         /\ lookup[p].result.ok
    /\ lookup["p1"].city.name = <<"L", "o">>
    /\ lookup["p2"].city.name = <<"N", "Y">>
    /\ redis[city_key(<<"L", "o">>)].value = city_model_dump_json(lookup["p2"].city)
    /\ lookup["p1"].weather_hit
    /\ ~lookup["p2"].weather_hit

(***************************************************************************)
(* The key of a weather entry, under Spec.                                 *)
(***************************************************************************)
\* the second get_weather of task p since the store was empty, for a name whose
\* key is not the one of the first, which returned a snapshot with a working cache
SecondOtherName(p) ==
    /\ started = 2
    /\ lookup[p].pc # "idle"
    /\ prev[p].clean
    /\ normalize_city_name(prev[p].city_name) # normalize_city_name(lookup[p].city_name)

\* the city field of the snapshot stored under the weather key of city_name
StoredWeatherCity(city_name) == V(V(redis[weather_key(city_name)].value)["city"])

\* C21: the weather entry is keyed by the normalized query name and never by the
\* name of the resolved city: after get_weather(q1) succeeded on an empty store,
\* get_weather(q2) with normalize(q2) # normalize(q1) never hits the weather
\* cache, whatever city q2 resolves to; it returns a snapshot only after a
\* weather request of its own, and once it has written, the store holds one
\* entry under weather:normalize(q1) and another under weather:normalize(q2).
C21_WeatherKeyFromQueryName ==
    \A p \in AllProcs :
        SecondOtherName(p)
        => /\ ~lookup[p].weather_hit
           /\ (Done(p) /\ lookup[p].result.ok) => lookup[p].weather_requests >= 1
           /\ (Done(p) /\ ~IsNone(lookup[p].written) /\ ~lookup[p].evicted)
              => /\ weather_key(prev[p].city_name) # weather_key(lookup[p].city_name)
                 /\ ~IsNone(redis[weather_key(prev[p].city_name)])
                 /\ ~IsNone(redis[weather_key(lookup[p].city_name)])
                 /\ StoredWeatherCity(prev[p].city_name) = normalize_city_name(prev[p].city_name)
                 /\ StoredWeatherCity(lookup[p].city_name) = normalize_city_name(lookup[p].city_name)

\* "N Y" and then "Lo" both resolved to the city named "Lo": the second lookup
\* hit the city cache of neither name, missed the weather cache, asked the
\* weather provider, and the store holds the two weather entries
C21_Witness ==
    \E p \in AllProcs :
        /\ SecondOtherName(p)
        /\ prev[p].city_name = <<"N", " ", "Y">>
        /\ lookup[p].city_name = <<"L", "o">>
        /\ Done(p)
        /\ lookup[p].result.ok
        /\ ~lookup[p].redis_failed
        /\ ~lookup[p].evicted
        /\ lookup[p].city.name = <<"L", "o">>
        /\ ~IsNone(redis[city_key(<<"N", " ", "Y">>)])
        /\ redis[city_key(<<"N", " ", "Y">>)].value = city_model_dump_json(lookup[p].city)
        /\ ~lookup[p].weather_hit
        /\ lookup[p].weather_requests = 1
        /\ ~IsNone(redis[weather_key(<<"N", " ", "Y">>)])
        /\ ~IsNone(redis[weather_key(<<"L", "o">>)])

(***************************************************************************)
(* Expiry of the entries, under Spec.                                      *)
(***************************************************************************)
CityKeys == {city_key(n) : n \in Names}
WeatherKeys == {weather_key(n) : n \in Names}

\* C22: a city entry is written without expiry and leaves the store only when
\* the whole store is flushed; a weather entry is written with expiry
\* WEATHER_TTL_S when WEATHER_TTL_S > 0 and without expiry when it is 0.  A lookup
\* whose city read finds the entry goes on without a geocoding request, and
\* its weather read, when the entry is gone, is followed by a weather request:
\* such a lookup returns after at least one weather request and no geocoding
\* request.
C22_Expiry ==
    [][/\ \A k \in CityKeys :
             /\ ~IsNone(redis'[k]) => redis'[k].ex = 0
             /\ (~IsNone(redis[k]) /\ IsNone(redis'[k]))
                => \A k2 \in Keys : IsNone(redis'[k2])
       /\ \A k \in WeatherKeys :
             ~IsNone(redis'[k])
             => redis'[k].ex = (IF WEATHER_TTL_S > 0 THEN WEATHER_TTL_S ELSE 0)
       /\ \A p \in AllProcs :
             LET a == lookup[p]
                 b == lookup'[p]
             IN /\ ( /\ a.pc = "get_city"
                     /\ b.pc # a.pc
                     /\ ~b.redis_error
                     /\ ~IsNone(redis[city_key(a.city_name)]) )
                   => /\ b.pc = "get_weather"
                      /\ b.city_hit
                      /\ b.geo_requests = 0
                /\ ( /\ a.pc = "get_weather"
                     /\ b.pc # a.pc
                     /\ IsNone(redis[weather_key(a.city_name)]) )
                   => /\ b.pc = "request"
                      /\ b.stage = "weather"
                      /\ b.geo_requests = a.geo_requests
                /\ (a.pc = "request" /\ a.stage = "weather" /\ b # a /\ redis' = redis)
                   => /\ b.weather_requests = a.weather_requests + 1
                      /\ b.geo_requests = a.geo_requests
                /\ (Done(p)' /\ b.city_hit /\ ~b.weather_hit /\ b.result.ok)
                   => /\ b.geo_requests = 0
                      /\ b.weather_requests >= 1
      ]_vars

\* with WEATHER_TTL_S = 60 a lookup wrote both entries; the weather entry expired
\* and the city entry stayed; the next lookup of the name hit the city cache,
\* sent one weather request and no geocoding request, and wrote the entry again
C22_Witness ==
    \E p \in AllProcs :
        /\ WEATHER_TTL_S = 60
        /\ Done(p)
        /\ prev[p].clean
        /\ prev[p].city_name = lookup[p].city_name
        /\ lookup[p].evicted
        /\ ~lookup[p].redis_failed
        /\ lookup[p].city_hit
        /\ ~lookup[p].weather_hit
        /\ lookup[p].geo_requests = 0
        /\ lookup[p].weather_requests = 1
        /\ lookup[p].result.ok
        /\ redis[city_key(lookup[p].city_name)].ex = 0
        /\ redis[weather_key(lookup[p].city_name)].ex = 60

(***************************************************************************)
(* The city stage comes first, under Spec.                                 *)
(***************************************************************************)
\* the lookup of task p has read the weather cache or is about to
AtWeatherStage(p) ==
    \/ lookup[p].pc \in {"get_weather", "save_weather"}
    \/ lookup[p].stage = "weather"
    \/ lookup[p].weather_hit
    \/ lookup[p].weather_requests > 0
    \/ ~IsNone(lookup[p].weather_data)
    \/ ~IsNone(lookup[p].written)

\* the lookup of task p ended in its city stage
FailedInCityStage(p) == Done(p) /\ IsNone(lookup[p].city)

\* C23: a lookup reads the weather cache and asks the weather provider only
\* once get_city_data has returned a City, from the cache or from the
\* geocoding provider.  A lookup that misses the city cache sends a geocoding
\* request; when that request fails it ends with ExternalAPIError, when the
\* provider has no result with CityNotFoundError, and in both cases without a
\* read of the weather cache, whether or not a snapshot is stored under its key.
C23_CityStageFirst ==
    \A p \in AllProcs :
        /\ AtWeatherStage(p)
           => /\ ~IsNone(lookup[p].city)
              /\ lookup[p].city_hit \/ lookup[p].geo_requests >= 1
        /\ (Done(p) /\ ~lookup[p].city_hit) => lookup[p].geo_requests >= 1
        /\ FailedInCityStage(p)
           => /\ ~lookup[p].result.ok
              /\ ~lookup[p].weather_hit
              /\ lookup[p].weather_requests = 0
              /\ IsNone(lookup[p].response)
                 => lookup[p].result = ExternalAPIError("City lookup failed")
              /\ (HasGeoResponse(p) /\ NoResults(GeoBody(p)))
                 => lookup[p].result.exc = "CityNotFoundError"

\* a snapshot is stored under weather:lo and nothing under city:lo (the city
\* write of the lookup before had failed); the lookup of "Lo" sent geocoding
\* requests, they failed, and it ended with ExternalAPIError
C23_Witness ==
    \E p \in AllProcs :
        /\ FailedInCityStage(p)
        /\ lookup[p].city_name = <<"L", "o">>
        /\ ~lookup[p].evicted
        /\ ~lookup[p].redis_failed
        /\ IsNone(redis[city_key(<<"L", "o">>)])
        /\ ~IsNone(redis[weather_key(<<"L", "o">>)])
        /\ weather_from_json(redis[weather_key(<<"L", "o">>)].value).ok
        /\ lookup[p].geo_requests >= 1
        /\ lookup[p].result = ExternalAPIError("City lookup failed")

(***************************************************************************)
(* What a failing lookup leaves in the store, under Spec.                  *)
(***************************************************************************)
\* C24: the step in which a lookup raises writes nothing.  An entry is written
\* only by save_city of a lookup that holds the City its city stage returned,
\* and by save_weather in the step that returns the snapshot: a lookup that
\* fails in the city stage never holds a City and so has written nothing, a
\* lookup that fails in the weather stage has written no weather entry.  When
\* a lookup fails in the weather stage with a working cache and no eviction,
\* its City is stored under city:normalize(name), and the next lookup of the
\* name, again with a working cache and no eviction, hits the city cache and
\* sends no geocoding request.
C24_FailingStageWritesNothing ==
    [][/\ \A k \in CityKeys :
             (redis'[k] # redis[k] /\ ~IsNone(redis'[k]))
             => \E q \in AllProcs :
                  /\ lookup[q].pc = "save_city"
                  /\ lookup'[q].pc = "get_weather"
                  /\ ~IsNone(lookup[q].city)
                  /\ k = city_key(lookup[q].city_name)
       /\ \A k \in WeatherKeys :
             (redis'[k] # redis[k] /\ ~IsNone(redis'[k]))
             => \E q \in AllProcs :
                  /\ lookup[q].pc = "save_weather"
                  /\ Done(q)'
                  /\ lookup'[q].result.ok
                  /\ k = weather_key(lookup[q].city_name)
       /\ \A p \in AllProcs :
             LET a == lookup[p]
                 b == lookup'[p]
             IN /\ (a.pc # "done" /\ Done(p)' /\ ~b.result.ok) => redis' = redis
                /\ (a.pc \notin {"idle", "done"} /\ ~IsNone(a.city)) => b.city = a.city
                /\ IsNone(b.city)
                   => /\ b.pc \in {"idle", "get_city", "request", "sleep", "done"}
                      /\ b.stage # "weather"
                      /\ IsNone(b.written)
                /\ (Done(p)' /\ ~b.result.ok /\ ~IsNone(b.city))
                   => /\ IsNone(b.written)
                      /\ (~b.redis_failed /\ ~b.evicted)
                         => /\ ~IsNone(redis'[city_key(b.city_name)])
                            /\ city_from_json(redis'[city_key(b.city_name)].value)
                                 = Val(b.city)
                /\ ( /\ prev'[p].weather_failed
                     /\ prev'[p].city_name = b.city_name
                     /\ b.pc \notin {"idle", "get_city"}
                     /\ ~b.redis_failed
                     /\ ~b.evicted )
                   => /\ b.city_hit
                      /\ b.geo_requests = 0
      ]_vars

\* get_weather("Lo") resolved its city and failed in the weather stage; the
\* next get_weather("Lo") hit the city cache, sent no geocoding request and
\* failed in the weather stage as well; no weather entry was written
C24_Witness ==
    \E p \in AllProcs :
        /\ prev[p].weather_failed
        /\ prev[p].city_name = <<"L", "o">>
        /\ lookup[p].city_name = <<"L", "o">>
        /\ Done(p)
        /\ ~lookup[p].redis_failed
        /\ ~lookup[p].evicted
        /\ lookup[p].city_hit
        /\ lookup[p].geo_requests = 0
        /\ lookup[p].weather_requests >= 1
        /\ lookup[p].result = ExternalAPIError("Weather lookup failed")
        /\ ~IsNone(redis[city_key(<<"L", "o">>)])
        /\ \A k \in WeatherKeys : IsNone(redis[k])

====
